---- MODULE Spec2Model ----
(***************************************************************************)
(* A model of src/src/server.ts (ai-debugger): the `debug` and             *)
(* `debug_suggest_fix` tool handlers, parseError, summarizeStack,          *)
(* renderSummary and truncate.                                             *)
(*                                                                         *)
(* Strings are sequences of characters.  In the parser part the alphabet   *)
(* is reduced: a few literal words that the regular expressions of the     *)
(* source look for are single symbols ("Error", the Traceback head,        *)
(* `File `, `, line `), every other symbol is one character.  None of the  *)
(* regular expressions can begin or end a match inside such a word, so     *)
(* matching over the symbols is matching over the characters.              *)
(*                                                                         *)
(* An optional JavaScript value (T | undefined | null) is a sequence of    *)
(* length at most one: None is absent, Some(x) is present.                 *)
(***************************************************************************)
EXTENDS Integers, Sequences, FiniteSets, TLC

None == <<>>

Some(x) == <<x>>

-----------------------------------------------------------------------------
(* Characters and character classes of the regular expressions.            *)

NL == "\n"

ErrorWord == "Error"

TracebackHead == "Traceback (most recent call last)"

FileKw == "File "

LineKw == ", line "

Quote == "\""

Letters == {"a", "b", ErrorWord}

Digits == {"1", "2"}

\* \w
WordChars == Letters \cup Digits \cup {"_"}

\* [\w.]
WordDotChars == WordChars \cup {"."}

\* [A-Za-z_] and [A-Za-z0-9_]
IdentStartChars == Letters \cup {"_"}

IdentChars == WordChars

\* \s, and what String.prototype.trim removes
SpaceChars == {" ", NL}

Alphabet ==
    WordChars \cup SpaceChars
        \cup {".", ":", "/", "(", ")", Quote, TracebackHead, FileKw, LineKw}

\* [^\n]
NotNewline == Alphabet \ {NL}

\* [^:\n]
NotColonNewline == Alphabet \ {":", NL}

\* [^"]
NotQuote == Alphabet \ {Quote}

\* . (without the s flag): no line terminator
Dot == Alphabet \ {NL}

-----------------------------------------------------------------------------
(* String helpers.                                                          *)

Max(S) == CHOOSE x \in S : \A y \in S : y <= x

Min(S) == CHOOSE x \in S : \A y \in S : x <= y

\* The length of the longest run of characters of class C starting at s[i]:
\* what a greedy C* consumes.
RunLen(s, i, C) ==
    IF i > Len(s) THEN 0
    ELSE LET stops == {j \in i..Len(s) : s[j] \notin C}
         IN  IF stops = {} THEN Len(s) - i + 1 ELSE Min(stops) - i

\* s.slice(from - 1) in JavaScript's 0-based terms: the suffix from s[from].
Suffix(s, from) == SubSeq(s, from, Len(s))

\* String.prototype.split("\n")
RECURSIVE Split(_)
Split(s) ==
    LET k == RunLen(s, 1, NotNewline)
    IN  IF k = Len(s) THEN <<s>>
        ELSE <<SubSeq(s, 1, k)>> \o Split(Suffix(s, k + 2))

\* Array.prototype.join(sep)
RECURSIVE Join(_, _)
Join(parts, sep) ==
    IF Len(parts) = 0 THEN <<>>
    ELSE IF Len(parts) = 1 THEN parts[1]
    ELSE parts[1] \o sep \o Join(Tail(parts), sep)

\* l.trim().length > 0
NonBlank(l) == \E i \in 1..Len(l) : l[i] \notin SpaceChars

\* Number(digits) for a string of decimal digits
DigitVal(d) == IF d = "1" THEN 1 ELSE 2

RECURSIVE Number(_)
Number(ds) ==
    IF Len(ds) = 0 THEN 0
    ELSE 10 * Number(SubSeq(ds, 1, Len(ds) - 1)) + DigitVal(ds[Len(ds)])

\* LineStarts without the ^ of the expression: a match may start anywhere.
AnyStarts(s) == 1..Len(s)

\* The positions where ^ matches under the m flag.
LineStarts(s) == {p \in 1..Len(s) : p = 1 \/ s[p - 1] = NL}

-----------------------------------------------------------------------------
(* parseError's regular expressions, matched the way the engine matches     *)
(* them: leftmost start, greedy quantifiers, backtracking to shorter ones.  *)

\* /^(?<type>[\w.]*Error):.../ from p: the positions of an "Error" that the
\* greedy [\w.]* can be backtracked to and that ":" follows.
NodeTypeEnds(s, p) ==
    LET k == RunLen(s, p, WordDotChars)
    IN  {e \in p..(p + k - 1) :
            s[e] = ErrorWord /\ e + 1 <= Len(s) /\ s[e + 1] = ":"}

\* ...:\s*(?<message>[^\n]+)\n(?<stack>[\s\S]+) after the colon s[c]: the
\* positions q where the message can start (\s* took s[c+1..q-1]) so that
\* the line's rest is a non-empty message, a "\n" ends it and at least one
\* character follows.
NodeMessageStarts(s, c) ==
    LET m == RunLen(s, c + 1, SpaceChars)
    IN  {q \in (c + 1)..(c + 1 + m) :
            LET r == RunLen(s, q, NotNewline)
            IN  r >= 1 /\ q + r + 1 <= Len(s)}

NodeMatchAt(s, p) ==
    LET E == {e \in NodeTypeEnds(s, p) : NodeMessageStarts(s, e + 1) # {}}
    IN  IF E = {} THEN None
        ELSE LET e == Max(E)
                 q == Max(NodeMessageStarts(s, e + 1))
                 r == RunLen(s, q, NotNewline)
             IN  Some([type |-> SubSeq(s, p, e),
                       message |-> SubSeq(s, q, q + r - 1),
                       stack |-> Suffix(s, q + r + 1)])

\* nodeMatch = /^(?<type>[\w.]*Error):\s*(?<message>[^\n]+)\n(?<stack>[\s\S]+)/m.exec(stderr)
NodeMatch(s) ==
    LET P == {p \in LineStarts(s) : NodeMatchAt(s, p) # None}
    IN  IF P = {} THEN None ELSE NodeMatchAt(s, Min(P))

\* /(\/[^:\n]+):(\d+):(\d+)/ from p
LocMatchAt(s, p) ==
    LET r  == RunLen(s, p + 1, NotColonNewline)
        c1 == p + 1 + r
        d1 == RunLen(s, c1 + 1, Digits)
        c2 == c1 + 1 + d1
        d2 == RunLen(s, c2 + 1, Digits)
    IN  IF /\ s[p] = "/"
           /\ r >= 1
           /\ c1 <= Len(s) /\ s[c1] = ":"
           /\ d1 >= 1
           /\ c2 <= Len(s) /\ s[c2] = ":"
           /\ d2 >= 1
        THEN Some([file |-> SubSeq(s, p, c1 - 1),
                   line |-> Number(SubSeq(s, c1 + 1, c2 - 1)),
                   column |-> Number(SubSeq(s, c2 + 1, c2 + d2))])
        ELSE None

\* loc = /(\/[^:\n]+):(\d+):(\d+)/.exec(stack)
LocMatch(s) ==
    LET P == {p \in 1..Len(s) : LocMatchAt(s, p) # None}
    IN  IF P = {} THEN None ELSE LocMatchAt(s, Min(P))

\* /File \"([^\"]+)\", line (\d+)/ from p
PyFileMatchAt(l, p) ==
    LET r  == RunLen(l, p + 2, NotQuote)
        q  == p + 2 + r
        d  == RunLen(l, q + 2, Digits)
    IN  IF /\ l[p] = FileKw
           /\ p + 1 <= Len(l) /\ l[p + 1] = Quote
           /\ r >= 1
           /\ q + 1 <= Len(l) /\ l[q] = Quote /\ l[q + 1] = LineKw
           /\ d >= 1
        THEN Some([file |-> SubSeq(l, p + 2, q - 1),
                   line |-> Number(SubSeq(l, q + 2, q + 1 + d))])
        ELSE None

\* m = pyFile.exec(line)
PyFileMatch(l) ==
    LET P == {p \in 1..Len(l) : PyFileMatchAt(l, p) # None}
    IN  IF P = {} THEN None ELSE PyFileMatchAt(l, Min(P))

\* /Traceback \(most recent call last\):/m.test(stderr)
HasTracebackMarker(s) ==
    \E i \in 1..(Len(s) - 1) : s[i] = TracebackHead /\ s[i + 1] = ":"

\* /^(?<type>[A-Za-z_][A-Za-z0-9_]*):\s*(?<message>.*)$/.exec(l)
IdentLineMatch(l) ==
    LET k == RunLen(l, 1, IdentChars)
        m == RunLen(l, k + 2, SpaceChars)
    IN  IF /\ k >= 1 /\ l[1] \in IdentStartChars
           /\ k + 1 <= Len(l) /\ l[k + 1] = ":"
           /\ RunLen(l, k + 2 + m, Dot) = Len(l) - (k + 1 + m)
        THEN Some([type |-> SubSeq(l, 1, k), message |-> Suffix(l, k + 2 + m)])
        ELSE None

\* /^(?<type>[\w.]*Error):\s*(?<message>.*)$/.exec(l)
ErrorLineMatch(l) ==
    LET E == NodeTypeEnds(l, 1)
    IN  IF E = {} THEN None
        ELSE LET e == Max(E)
                 m == RunLen(l, e + 2, SpaceChars)
             IN  IF RunLen(l, e + 2 + m, Dot) = Len(l) - (e + 1 + m)
                 THEN Some([type |-> SubSeq(l, 1, e),
                            message |-> Suffix(l, e + 2 + m)])
                 ELSE None

\* LastMatch with the loop stopping at the first match.
RECURSIVE FirstPresentMatch(_)
FirstPresentMatch(ms) ==
    IF Len(ms) = 0 THEN None
    ELSE IF ms[1] # None THEN ms[1]
    ELSE FirstPresentMatch(Tail(ms))

\* The last element of a sequence of optional values that is present: what
\* the loop of lines 203-209 leaves in lastFile / lastLine.
RECURSIVE LastMatch(_)
LastMatch(ms) ==
    IF Len(ms) = 0 THEN None
    ELSE IF ms[Len(ms)] # None THEN ms[Len(ms)]
    ELSE LastMatch(SubSeq(ms, 1, Len(ms) - 1))

\* lines.reverse().find((l) => l.trim().length > 0) ?? ""
RECURSIVE LastNonBlank(_)
LastNonBlank(lines) ==
    IF Len(lines) = 0 THEN <<>>
    ELSE IF NonBlank(lines[Len(lines)]) THEN lines[Len(lines)]
    ELSE LastNonBlank(SubSeq(lines, 1, Len(lines) - 1))

\* FirstNonBlank without the test of the line: the first line, blank or not.
FirstLineAsIs(lines) == IF Len(lines) = 0 THEN <<>> ELSE lines[1]

\* stack.split("\n").find((l) => l.trim().length > 0) ?? ""
RECURSIVE FirstNonBlank(_)
FirstNonBlank(lines) ==
    IF Len(lines) = 0 THEN <<>>
    ELSE IF NonBlank(lines[1]) THEN lines[1]
    ELSE FirstNonBlank(Tail(lines))

\* NodeRecord with the location looked for in all of stderr.
NodeRecordWholeText(stderr, nm) ==
    LET loc == LocMatch(stderr)
    IN  [runtime |-> "node",
         type    |-> nm.type,
         message |-> nm.message,
         file    |-> IF loc = None THEN None ELSE Some(loc[1].file),
         line    |-> IF loc = None THEN None ELSE Some(loc[1].line),
         column  |-> IF loc = None THEN None ELSE Some(loc[1].column),
         stack   |-> nm.stack]

\* The node branch of parseError (lines 180-194): the location is looked for
\* in the captured stack, not in stderr.
NodeRecord(stderr, nm) ==
    LET loc == LocMatch(nm.stack)
    IN  [runtime |-> "node",
         type    |-> nm.type,
         message |-> nm.message,
         file    |-> IF loc = None THEN None ELSE Some(loc[1].file),
         line    |-> IF loc = None THEN None ELSE Some(loc[1].line),
         column  |-> IF loc = None THEN None ELSE Some(loc[1].column),
         stack   |-> nm.stack]

\* The python branch of parseError (lines 200-221).  The record has no
\* column key: column is None.
PythonRecord(stderr) ==
    LET lines        == Split(stderr)
        last         == LastMatch([i \in 1..Len(lines) |-> PyFileMatch(lines[i])])
        lastLineText == LastNonBlank(lines)
        errTypeMsg   == IdentLineMatch(lastLineText)
    IN  [runtime |-> "python",
         type    |-> IF errTypeMsg = None THEN <<ErrorWord>>
                     ELSE errTypeMsg[1].type,
         message |-> IF errTypeMsg = None THEN lastLineText
                     ELSE errTypeMsg[1].message,
         file    |-> IF last = None THEN None ELSE Some(last[1].file),
         line    |-> IF last = None THEN None ELSE Some(last[1].line),
         column  |-> None,
         stack   |-> stderr]

\* parseError(stderr): stderr is None (undefined) or Some(text); the result
\* is None (null) or Some(record).
parseError(stderr) ==
    IF stderr = None \/ stderr[1] = <<>> THEN None
    ELSE LET nodeMatch == NodeMatch(stderr[1])
         IN  IF nodeMatch # None THEN Some(NodeRecord(stderr[1], nodeMatch[1]))
             ELSE IF HasTracebackMarker(stderr[1])
                  THEN Some(PythonRecord(stderr[1]))
                  ELSE None

SliceLimit == 200

\* summarizeStack(stack)
summarizeStack(stack) ==
    LET firstLine == FirstNonBlank(Split(stack))
        node      == ErrorLineMatch(firstLine)
        py        == IdentLineMatch(firstLine)
    IN  IF node # None THEN node[1].type \o <<":", " ">> \o node[1].message
        ELSE IF py # None THEN py[1].type \o <<":", " ">> \o py[1].message
        ELSE IF firstLine # <<>> THEN firstLine
        ELSE SubSeq(stack, 1, IF Len(stack) < SliceLimit THEN Len(stack) ELSE SliceLimit)

-----------------------------------------------------------------------------
(* Rendering.  A label of the report ("Command: ", "STDOUT:", ...) is one   *)
(* symbol; the bodies and the truncation marker are character by character. *)

TruncateBudget == 4000

TruncateSlack == 20

\* "\n…[truncated]": 13 characters ("..." stands for the one character U+2026)
TruncationMarker ==
    <<NL, "...", "[", "t", "r", "u", "n", "c", "a", "t", "e", "d", "]">>

\* truncate with the marker added to a head of the full max characters.
truncateKeepBudget(text, max) ==
    IF Len(text) <= max THEN text
    ELSE SubSeq(text, 1, max) \o TruncationMarker

\* truncate(text, max)
truncate(text, max) ==
    IF Len(text) <= max THEN text
    ELSE SubSeq(text, 1, max - TruncateSlack) \o TruncationMarker

\* `${payload.exitCode}`: the payload's exitCode is a number or null
ExitText(exitCode) ==
    IF exitCode = None THEN <<"null">> ELSE <<ToString(exitCode[1])>>

\* The parts renderSummary pushes, in order (lines 158-167).
RenderParts(payload) ==
    LET head ==
            << <<"Command: ">> \o payload.command,
               <<"CWD: ">> \o payload.cwd,
               <<"Exit: ">> \o ExitText(payload.exitCode)
                   \o (IF payload.timedOut THEN <<" (timed out)">> ELSE <<>>) >>
        err ==
            IF payload.error = None THEN <<>>
            ELSE LET e == payload.error[1]
                 IN  << <<"Error: ">> \o e.type \o <<":", " ">> \o e.message >>
                     \o (IF e.file # None /\ e.file[1] # <<>>
                         THEN << <<"File: ">> \o e.file[1] \o <<":">>
                                 \o (IF e.line = None THEN <<"?">>
                                     ELSE <<ToString(e.line[1])>>) >>
                         ELSE <<>>)
        out ==
            IF NonBlank(payload.stdout)
            THEN << <<"STDOUT:", NL>> \o truncate(payload.stdout, TruncateBudget) >>
            ELSE <<>>
        errs ==
            IF NonBlank(payload.stderr)
            THEN << <<"STDERR:", NL>> \o truncate(payload.stderr, TruncateBudget) >>
            ELSE <<>>
    IN  head \o err \o out \o errs

\* renderSummary(payload)
renderSummary(payload) == Join(RenderParts(payload), <<NL>>)

-----------------------------------------------------------------------------
(* Paths, resource links and the tool results.                              *)

ProcessCwd == <<"/", "srv">>

\* path.resolve(base, p) for an absolute base and the paths of the model
PathResolve(base, p) ==
    IF p = <<>> THEN base
    ELSE IF p[1] = "/" THEN p
    ELSE base \o <<"/">> \o p

\* path.basename(p): the last segment, trailing separators dropped
RECURSIVE BaseName(_)
BaseName(p) ==
    IF Len(p) > 0 /\ p[Len(p)] = "/" THEN BaseName(SubSeq(p, 1, Len(p) - 1))
    ELSE IF \E i \in 1..Len(p) : p[i] = "/"
    THEN Suffix(p, 1 + Max({i \in 1..Len(p) : p[i] = "/"}))
    ELSE p

\* path.extname(p).toLowerCase(): from the last "." of the base name, unless
\* the base name starts with it
ExtName(p) ==
    LET b == BaseName(p)
        D == {i \in 2..Len(b) : b[i] = "."}
    IN  IF D = {} THEN <<>> ELSE Suffix(b, Max(D))

\* guessMime(p)
guessMime(p) ==
    LET ext == ExtName(p)
    IN  IF ext = <<".", "ts">> THEN Some("text/typescript")
        ELSE IF ext = <<".", "tsx">> THEN Some("text/tsx")
        ELSE IF ext = <<".", "js">> THEN Some("text/javascript")
        ELSE IF ext = <<".", "jsx">> THEN Some("text/jsx")
        ELSE IF ext = <<".", "py">> THEN Some("text/x-python")
        ELSE IF ext = <<".", "json">> THEN Some("application/json")
        ELSE IF ext = <<".", "md">> THEN Some("text/markdown")
        ELSE None

\* pathToFileUri(p), not on win32
pathToFileUri(p) == <<"file://">> \o PathResolve(ProcessCwd, p)

\* A content item: a text, the serialised payload (data), or a resource link.
TextItem(t) == [type |-> "text", text |-> t, data |-> None]

JsonItem(payload) == [type |-> "text", text |-> <<"JSON">>, data |-> Some(payload)]

LinkItem(p, description) ==
    [type |-> "resource_link",
     text |-> pathToFileUri(p),
     data |-> Some([name |-> IF BaseName(p) # <<>> THEN BaseName(p)
                             ELSE pathToFileUri(p),
                    description |-> description,
                    mimeType |-> guessMime(p)])]

\* The handler of debug_suggest_fix (lines 133-145).  The result has no
\* isError key.
debugSuggestFix(stack, fileHints) ==
    LET summary == summarizeStack(stack)
        given   == IF fileHints = None THEN <<>> ELSE fileHints[1]
        hints   == Join([i \in 1..Len(given) |-> <<"- ">> \o given[i]], <<NL>>)
        parts   == << <<"Stack summary:", NL>> \o summary >>
                   \o (IF hints # <<>>
                       THEN << <<"Likely files:", NL>> \o hints >> ELSE <<>>)
                   \o << <<"Provide a minimal, safe edit that resolves the root cause.">> >>
    IN  [content |-> <<TextItem(Join(parts, <<NL, NL>>))>>, isError |-> None]

-----------------------------------------------------------------------------
(* The state.                                                               *)

VARIABLES
    pc,            \* where the handler (or the function under check) is
    req,           \* the arguments of the running `debug` call, or None
    entryExists,   \* what fs.existsSync(entryPath) answered, None if not asked
    child,         \* the child process execa runs
    stdout,        \* its collected standard output
    stderr,        \* its collected standard error: None or Some(text)
    exitCode,      \* execa's exitCode: Some(n), or None for undefined
    timedOut,      \* execa's timedOut
    spawnCount,    \* execa calls made by the running `debug` call
    nLines,        \* lines written to stderr so far
    errorSummary,  \* what parseError returned
    result         \* what the tool (or the function under check) returned

vars ==
    <<pc, req, entryExists, child, stdout, stderr, exitCode, timedOut,
      spawnCount, nLines, errorSummary, result>>

-----------------------------------------------------------------------------
(* The `debug` handler (lines 37-119).                                      *)

DefaultTimeout == 15000

MaxChildLines == 2

MaxExit == 1

EntryChoices == {None, Some(<<>>), Some(<<"app", ".", "js">>)}

ArgsChoices == {None, Some(<< <<"x">> >>)}

CwdChoices == {None, Some(<<"/", "w">>)}

TimeoutChoices == {None, Some(5)}

Requests ==
    [language : {"node", "python"}, entry : EntryChoices, args : ArgsChoices,
     cwd : CwdChoices, timeoutMs : TimeoutChoices]

\* What the child may write to its standard error, line by line, and to its
\* standard output.
ChildLines ==
    { <<>>,
      <<"a">>,
      <<"b", ErrorWord, ":", " ", "a">>,
      <<" ", "a", " ", "(", "/", "a", ".", "b", ":", "1", ":", "2", ")">>,
      <<TracebackHead, ":">> }

ChildStdout == { <<"a", NL, "b">>, <<" ">> }

\* const workingDir = cwd ? path.resolve(cwd) : process.cwd()
WorkingDir(r) ==
    IF r.cwd # None /\ r.cwd[1] # <<>> THEN PathResolve(ProcessCwd, r.cwd[1])
    ELSE ProcessCwd

\* const entryPath = entry ? path.resolve(workingDir, entry) : undefined
EntryPath(r) ==
    IF r.entry # None /\ r.entry[1] # <<>>
    THEN Some(PathResolve(WorkingDir(r), r.entry[1]))
    ELSE None

\* const execTimeout = typeof timeoutMs === "number" ? timeoutMs : 15000
ExecTimeout(r) == IF r.timeoutMs # None THEN r.timeoutMs[1] ELSE DefaultTimeout

\* const command = language === "node" ? "node" : "python3"
Command(r) == IF r.language = "node" THEN <<"node">> ELSE <<"python3">>

\* const childArgs = entryPath ? [entryPath, ...(args ?? [])] : ["-V"]
ChildArgs(r) ==
    IF EntryPath(r) # None
    THEN <<EntryPath(r)[1]>> \o (IF r.args = None THEN <<>> ELSE r.args[1])
    ELSE << <<"-V">> >>

NoChild ==
    [status |-> "none", command |-> <<>>, args |-> <<>>, cwd |-> <<>>,
     timeout |-> 0]

\* MustFailFast with the negation lost.
MustFailFastInverted(r, exists) == EntryPath(r) # None /\ exists = Some(TRUE)

\* if (entryPath && !fs.existsSync(entryPath))
MustFailFast(r, exists) == EntryPath(r) # None /\ exists = Some(FALSE)

\* IsErrorOf as `exitCode > 0`: no exit code passes for success.
IsErrorOfNumeric(code) == code # None /\ code # Some(0)

\* isError: exitCode !== 0
IsErrorOf(code) == code # Some(0)

\* The payload of lines 70-79.  `error: errorSummary ?? undefined`: null and
\* undefined are both None.
Payload(r, out, err, code, timed, summary) ==
    [language |-> r.language,
     command  |-> Join(<<Command(r)>> \o ChildArgs(r), <<" ">>),
     cwd      |-> WorkingDir(r),
     exitCode |-> code,
     timedOut |-> timed,
     stdout   |-> out,
     stderr   |-> err,
     error    |-> summary]

\* Lines 42-49
EntryNotFound(r) ==
    [content |-> <<TextItem(<<"Entry file not found: ">> \o EntryPath(r)[1])>>,
     isError |-> Some(TRUE)]

\* Lines 111-118
FailedToExecute ==
    [content |-> <<TextItem(<<"Failed to execute: ", "message">>)>>,
     isError |-> Some(TRUE)]

\* DebugResult as it would be with execa's default reject: true: a run that
\* fails throws, and the catch block answers.
DebugResultRejecting(r, payload, summary) ==
    IF payload.exitCode # Some(0) THEN FailedToExecute
    ELSE [content |->
            <<TextItem(renderSummary(payload)), JsonItem(payload)>>
            \o (IF EntryPath(r) # None
                THEN <<LinkItem(EntryPath(r)[1], "Program entry file")>>
                ELSE <<>>),
          isError |-> Some(FALSE)]

\* The result of lines 81-110.
DebugResult(r, payload, summary) ==
    [content |->
        <<TextItem(renderSummary(payload)), JsonItem(payload)>>
        \o (IF EntryPath(r) # None
            THEN <<LinkItem(EntryPath(r)[1], "Program entry file")>> ELSE <<>>)
        \o (IF summary # None /\ summary[1].file # None
               /\ summary[1].file[1] # <<>>
            THEN <<LinkItem(summary[1].file[1], "Likely error location")>>
            ELSE <<>>),
     isError |-> Some(IsErrorOf(payload.exitCode))]

Init ==
    /\ pc = "idle"
    /\ req = None
    /\ entryExists = None
    /\ child = NoChild
    /\ stdout = <<>>
    /\ stderr = Some(<<>>)
    /\ exitCode = None
    /\ timedOut = FALSE
    /\ spawnCount = 0
    /\ nLines = 0
    /\ errorSummary = None
    /\ result = None

\* Lines 37-67: the call up to its await.  A missing entry returns at
\* once; otherwise execa is called, and the child either starts or cannot
\* be started.  What execa does with a child it could not start is its
\* own business: with reject: false it may resolve with a failed result
\* ("spawnfailed") or throw ("spawnthrew").
DebugCall ==
    /\ pc = "idle"
    /\ \E r \in Requests :
        /\ req' = Some(r)
        /\ IF EntryPath(r) = None
           THEN entryExists' = None
           ELSE entryExists' \in {Some(TRUE), Some(FALSE)}
        /\ IF MustFailFast(r, entryExists')
           THEN /\ result' = Some(EntryNotFound(r))
                /\ pc' = "returned"
                /\ UNCHANGED <<child, spawnCount>>
           ELSE /\ \E st \in {"running", "spawnfailed", "spawnthrew"} :
                    child' = [status  |-> st,
                              command |-> Command(r),
                              args    |-> ChildArgs(r),
                              cwd     |-> WorkingDir(r),
                              timeout |-> ExecTimeout(r)]
                /\ spawnCount' = spawnCount + 1
                /\ pc' = "awaiting"
                /\ UNCHANGED result
    /\ UNCHANGED <<stdout, stderr, exitCode, timedOut, nLines, errorSummary>>

\* The child writes a line to its standard error.
ChildWriteErr ==
    /\ child.status = "running"
    /\ nLines < MaxChildLines
    /\ \E l \in ChildLines :
        stderr' = Some(IF nLines = 0 THEN l ELSE stderr[1] \o <<NL>> \o l)
    /\ nLines' = nLines + 1
    /\ UNCHANGED <<pc, req, entryExists, child, stdout, exitCode, timedOut,
                   spawnCount, errorSummary, result>>

\* The child writes its standard output.
ChildWriteOut ==
    /\ child.status = "running"
    /\ stdout = <<>>
    /\ stdout' \in ChildStdout
    /\ UNCHANGED <<pc, req, entryExists, child, stderr, exitCode, timedOut,
                   spawnCount, nLines, errorSummary, result>>

\* The child exits by itself.
ChildExit ==
    /\ child.status = "running"
    /\ child' = [child EXCEPT !.status = "exited"]
    /\ \E code \in 0..MaxExit : exitCode' = Some(code)
    /\ UNCHANGED <<pc, req, entryExists, stdout, stderr, timedOut, spawnCount,
                   nLines, errorSummary, result>>

\* A signal from elsewhere ends the child: execa reports no exit code.
ChildSignalled ==
    /\ child.status = "running"
    /\ child' = [child EXCEPT !.status = "killed"]
    /\ exitCode' = None
    /\ UNCHANGED <<pc, req, entryExists, stdout, stderr, timedOut, spawnCount,
                   nLines, errorSummary, result>>

\* The child outlives `timeout`: execa kills it, and reports timedOut and
\* no exit code (exitCode is undefined for a child ended by a signal).
ChildTimeout ==
    /\ child.status = "running"
    /\ child' = [child EXCEPT !.status = "killed"]
    /\ exitCode' = None
    /\ timedOut' = TRUE
    /\ UNCHANGED <<pc, req, entryExists, stdout, stderr, spawnCount, nLines,
                   errorSummary, result>>

\* AwaitResume with a retry: a run that did not exit 0 is spawned again.
AwaitResumeRetry ==
    /\ pc = "awaiting"
    /\ child.status \in {"exited", "killed", "spawnfailed"}
    /\ IF exitCode # Some(0) /\ spawnCount < 2
       THEN /\ child' = [child EXCEPT !.status = "running"]
            /\ spawnCount' = spawnCount + 1
            /\ UNCHANGED <<pc, errorSummary, result>>
       ELSE /\ errorSummary' = parseError(stderr)
            /\ result' = Some(DebugResult(req[1],
                            Payload(req[1], stdout, stderr[1], exitCode,
                                    timedOut, errorSummary'),
                            errorSummary'))
            /\ pc' = "returned"
            /\ UNCHANGED <<child, spawnCount>>
    /\ UNCHANGED <<req, entryExists, stdout, stderr, exitCode, timedOut, nLines>>

\* Lines 67-110: the await resolves (reject: false resolves for a failed
\* run too, a child that could not be started included) and the handler
\* parses, renders and returns.
AwaitResume ==
    /\ pc = "awaiting"
    /\ child.status \in {"exited", "killed", "spawnfailed"}
    /\ errorSummary' = parseError(stderr)
    /\ result' = Some(DebugResult(req[1],
                    Payload(req[1], stdout, stderr[1], exitCode, timedOut,
                            errorSummary'),
                    errorSummary'))
    /\ pc' = "returned"
    /\ UNCHANGED <<req, entryExists, child, stdout, stderr, exitCode, timedOut,
                   spawnCount, nLines>>

\* Lines 111-118: execa throws for a child that could not be started.
AwaitThrow ==
    /\ pc = "awaiting"
    /\ child.status = "spawnthrew"
    /\ result' = Some(FailedToExecute)
    /\ pc' = "returned"
    /\ UNCHANGED <<req, entryExists, child, stdout, stderr, exitCode, timedOut,
                   spawnCount, nLines, errorSummary>>

\* The result goes to the client; the next call starts afresh.
Respond ==
    /\ pc = "returned"
    /\ pc' = "idle"
    /\ req' = None
    /\ entryExists' = None
    /\ child' = NoChild
    /\ stdout' = <<>>
    /\ stderr' = Some(<<>>)
    /\ exitCode' = None
    /\ timedOut' = FALSE
    /\ spawnCount' = 0
    /\ nLines' = 0
    /\ errorSummary' = None
    /\ result' = None

Next ==
    \/ DebugCall
    \/ ChildWriteErr
    \/ ChildWriteOut
    \/ ChildExit
    \/ ChildSignalled
    \/ ChildTimeout
    \/ AwaitResume
    \/ AwaitThrow
    \/ Respond

Spec == Init /\ [][Next]_vars

-----------------------------------------------------------------------------
(* parseError on its own: the text is built line by line, then lines 69    *)
(* and 78 of the handler run on it.                                         *)

MaxLines == 3

ParseLines ==
    { <<>>,
      <<" ">>,
      <<"a", " ", "b">>,
      <<ErrorWord, ":", " ", "a">>,
      <<"a", ".", "b", ErrorWord, ":", " ", "/", "a", ":", "1", ":", "1", " ", "b">>,
      <<ErrorWord, ":">>,
      <<" ", ErrorWord, ":", " ", "a">>,
      <<"b", ErrorWord, ":", " ", "b">>,
      <<"a", ":", " ", "b">>,
      <<" ", "a", " ", "(", "/", "a", ".", "b", ":", "1", "2", ":", "2", ")">>,
      <<"/", "b", ":", "2", ":", "1">>,
      <<"/", "a", ":", "1">>,
      <<TracebackHead, ":">>,
      <<" ", FileKw, Quote, "/", "a", ".", "b", Quote, LineKw, "1", "2", " ", "a">>,
      <<FileKw, Quote, "b", Quote, LineKw, "2">>,
      <<FileKw, Quote, "a", Quote, LineKw, "1", " ", FileKw, Quote, "b", Quote, LineKw, "2", "1">> }

ParseInit ==
    /\ pc = "input"
    /\ req = None
    /\ entryExists = None
    /\ child = NoChild
    /\ stdout = <<>>
    /\ stderr = None
    /\ exitCode = None
    /\ timedOut = FALSE
    /\ spawnCount = 0
    /\ nLines = 0
    /\ errorSummary = None
    /\ result = None

\* One more line of the text parseError is given (None is undefined, one
\* empty line is "").
AppendLine ==
    /\ pc = "input"
    /\ nLines < MaxLines
    /\ \E l \in ParseLines :
        stderr' = Some(IF stderr = None THEN l ELSE stderr[1] \o <<NL>> \o l)
    /\ nLines' = nLines + 1
    /\ UNCHANGED <<pc, req, entryExists, child, stdout, exitCode, timedOut,
                   spawnCount, errorSummary, result>>

\* Line 69, const errorSummary = parseError(stderr), and line 78, the
\* payload's field error: errorSummary ?? undefined.
ParseStep ==
    /\ pc = "input"
    /\ errorSummary' = parseError(stderr)
    /\ result' = Some([error |-> errorSummary'])
    /\ pc' = "parsed"
    /\ UNCHANGED <<req, entryExists, child, stdout, stderr, exitCode, timedOut,
                   spawnCount, nLines>>

ParseNext == AppendLine \/ ParseStep

SpecParse == ParseInit /\ [][ParseNext]_vars

-----------------------------------------------------------------------------
(* debug_suggest_fix: the client builds a stack text (in stderr) and calls  *)
(* the tool with it.                                                        *)

MaxStackLines == 3

BlankPad == [i \in 1..(SliceLimit + 1) |-> " "]

StackLines ==
    { <<>>,
      <<" ">>,
      BlankPad,
      <<" ", "a", ":", "b">>,
      <<"a", "1", ":", " ", " ", "b", ":", "a">>,
      <<"a", ".", ErrorWord, ":", "b", " ">>,
      <<"1", ErrorWord, ":">>,
      <<"a", ".", "b", ":", " ", "a">>,
      <<ErrorWord, " ", ":", "a">> }

HintChoices == {None, Some(<<>>), Some(<< <<"/", "a", ".", "js">>, <<"b">> >>)}

SummaryInit ==
    /\ pc = "input"
    /\ req = None
    /\ entryExists = None
    /\ child = NoChild
    /\ stdout = <<>>
    /\ stderr = Some(<<>>)
    /\ exitCode = None
    /\ timedOut = FALSE
    /\ spawnCount = 0
    /\ nLines = 0
    /\ errorSummary = None
    /\ result = None

AppendStackLine ==
    /\ pc = "input"
    /\ nLines < MaxStackLines
    /\ \E l \in StackLines :
        stderr' = Some(IF nLines = 0 THEN l ELSE stderr[1] \o <<NL>> \o l)
    /\ nLines' = nLines + 1
    /\ UNCHANGED <<pc, req, entryExists, child, stdout, exitCode, timedOut,
                   spawnCount, errorSummary, result>>

\* Lines 133-145
SuggestFixCall ==
    /\ pc = "input"
    /\ \E hints \in HintChoices :
        result' = Some(debugSuggestFix(stderr[1], hints))
    /\ pc' = "suggested"
    /\ UNCHANGED <<req, entryExists, child, stdout, stderr, exitCode, timedOut,
                   spawnCount, nLines, errorSummary>>

SummaryNext == AppendStackLine \/ SuggestFixCall

SpecSummary == SummaryInit /\ [][SummaryNext]_vars

-----------------------------------------------------------------------------
(* renderSummary on its own, on payloads whose bodies are around the        *)
(* budget of truncate.                                                      *)

MaxOver == 1

BodyLengths ==
    {0, 1, 2} \cup (TruncateBudget - MaxOver)..(TruncateBudget + MaxOver)

CharAt(i, kind) ==
    IF kind = "blank" THEN (IF i % 2 = 1 THEN " " ELSE NL)
    ELSE IF i % 3 = 1 THEN "a" ELSE IF i % 3 = 2 THEN "b" ELSE " "

Body(n, kind) == [i \in 1..n |-> CharAt(i, kind)]

Bodies == {Body(n, kind) : n \in BodyLengths, kind \in {"text", "blank"}}

RenderRequest ==
    [language |-> "node", entry |-> None, args |-> None, cwd |-> None,
     timeoutMs |-> None]

SampleError ==
    [runtime |-> "node", type |-> <<ErrorWord>>, message |-> <<"a">>,
     file |-> Some(<<"/", "a">>), line |-> Some(1), column |-> Some(2),
     stack |-> <<"/", "a", ":", "1", ":", "2">>]

RenderInit ==
    /\ pc = "payload"
    /\ req = Some(RenderRequest)
    /\ entryExists = None
    /\ child = NoChild
    /\ stdout \in Bodies
    /\ stderr \in {Some(b) : b \in Bodies}
    /\ \E o \in {<<Some(0), FALSE>>, <<None, TRUE>>} :
        exitCode = o[1] /\ timedOut = o[2]
    /\ spawnCount = 0
    /\ nLines = 0
    /\ errorSummary \in {None, Some(SampleError)}
    /\ result = None

\* Line 81: const text = renderSummary(payload)
RenderStep ==
    /\ pc = "payload"
    /\ LET payload == Payload(req[1], stdout, stderr[1], exitCode, timedOut,
                              errorSummary)
       IN  result' = Some([parts |-> RenderParts(payload),
                           text  |-> renderSummary(payload)])
    /\ pc' = "rendered"
    /\ UNCHANGED <<req, entryExists, child, stdout, stderr, exitCode, timedOut,
                   spawnCount, nLines, errorSummary>>

RenderNext == RenderStep

SpecRender == RenderInit /\ [][RenderNext]_vars

-----------------------------------------------------------------------------
(* Properties of the `debug` handler, checked under Spec.                   *)

\* The request names an entry and fs.existsSync did not find it.
EntryMissing ==
    /\ req # None
    /\ req[1].entry # None /\ req[1].entry[1] # <<>>
    /\ entryExists = Some(FALSE)

\* The child ended, or never started, and execa's promise resolved.
ChildResolved == child.status \in {"exited", "killed", "spawnfailed"}

\* The result carries the serialised ExecutionResult.
HasPayload(r) == Len(r.content) >= 2 /\ r.content[2].data # None

PayloadOf(r) == r.content[2].data[1]

Failed(r) == r.isError = Some(TRUE)

\* C1: a `debug` result is marked isError exactly when the child's exit
\* code is not 0 (no numeric exit code included), or the entry file is
\* missing, or spawning throws; exit 0 with empty stderr is not marked and
\* has no error record; a timed-out run has timedOut = true and is marked.
DebugMarkedFailedExactlyWhen ==
    pc = "returned" =>
        LET r == result[1]
        IN  /\ r.isError \in {Some(TRUE), Some(FALSE)}
            /\ Failed(r) <=>
                  \/ EntryMissing
                  \/ child.status = "spawnthrew"
                  \/ ChildResolved /\ exitCode # Some(0)
            /\ (child.status = "exited" /\ exitCode = Some(0)
                    /\ stderr = Some(<<>>))
                  => ~Failed(r) /\ HasPayload(r) /\ PayloadOf(r).error = None
            /\ timedOut => HasPayload(r) /\ PayloadOf(r).timedOut /\ Failed(r)

\* A timed-out run has been answered.
TimedOutRunReturned ==
    pc = "returned" /\ timedOut /\ exitCode = None /\ Failed(result[1])

\* C2, as stated: only a missing entry and a child that could not be started
\* are marked isError; a run that exits non-zero, is killed or times out is
\* returned unmarked.
OnlySetupAndSpawnErrorsMarked ==
    pc = "returned" =>
        /\ Failed(result[1]) =>
              EntryMissing \/ child.status \in {"spawnfailed", "spawnthrew"}
        /\ child.status \in {"exited", "killed"} => ~Failed(result[1])

\* C2, amended: only a missing entry and a spawn that throws are answered
\* by a failure that carries no ExecutionResult; every run whose await
\* resolves is answered with the ExecutionResult as payload, exit code,
\* timedOut and streams as collected, and is marked isError exactly when
\* its exit code is not 0, whatever parseError made of stderr.
OnlySetupAndThrownErrorsLackPayload ==
    pc = "returned" =>
        LET r == result[1]
        IN  /\ HasPayload(r) <=> ChildResolved
            /\ ~HasPayload(r) <=> EntryMissing \/ child.status = "spawnthrew"
            /\ ~HasPayload(r) => Failed(r) /\ Len(r.content) = 1
            /\ ChildResolved =>
                  /\ PayloadOf(r).exitCode = exitCode
                  /\ PayloadOf(r).timedOut = timedOut
                  /\ PayloadOf(r).stdout = stdout
                  /\ PayloadOf(r).stderr = stderr[1]
                  /\ Failed(r) <=> exitCode # Some(0)
            /\ (child.status = "exited" /\ exitCode = Some(0)) => ~Failed(r)

\* A run that exited non-zero, with a stderr parseError made nothing of,
\* has been answered: marked, and with its payload.
FailedRunReturnedWithPayload ==
    /\ pc = "returned"
    /\ child.status = "exited" /\ exitCode # Some(0)
    /\ stderr # Some(<<>>) /\ errorSummary = None
    /\ HasPayload(result[1]) /\ Failed(result[1])

\* C3: a request whose entry is given (a non-empty string) and does not
\* exist is answered by a failure before any child is spawned, with the
\* 'Entry file not found' text alone; a child is spawned only after the
\* existence check passed or when no entry was given.
MissingEntryFailsBeforeSpawn ==
    /\ EntryMissing =>
          /\ spawnCount = 0 /\ child = NoChild /\ pc # "awaiting"
          /\ pc = "returned" =>
                /\ Failed(result[1])
                /\ Len(result[1].content) = 1
                /\ result[1].content[1].type = "text"
                /\ result[1].content[1].data = None
                /\ result[1].content[1].text =
                      <<"Entry file not found: ">>
                      \o PathResolve(WorkingDir(req[1]), req[1].entry[1])
    /\ (spawnCount > 0 \/ child.status # "none") =>
          /\ req # None
          /\ \/ req[1].entry = None
             \/ req[1].entry[1] = <<>>
             \/ entryExists = Some(TRUE)

\* A request with a missing entry, under a given working directory, has
\* been answered.
MissingEntryAnswered ==
    pc = "returned" /\ EntryMissing /\ req[1].cwd # None /\ result # None

\* C9: a `debug` call spawns at most once, never again after a failure,
\* a non-zero exit or a timeout; it does not return before the child has
\* exited, been killed or failed to start; parsing and rendering happen
\* after the output is collected (the payload holds all of it).
SingleAttemptAndAwaited ==
    /\ spawnCount <= 1
    /\ spawnCount = 1 <=> child.status # "none"
    /\ (pc = "returned" /\ spawnCount = 1) =>
          child.status \in {"exited", "killed", "spawnfailed", "spawnthrew"}
    /\ child.status = "running" => pc = "awaiting" /\ result = None
    /\ (errorSummary # None \/ (result # None /\ HasPayload(result[1]))) =>
          /\ ChildResolved
          /\ pc = "returned"
          /\ PayloadOf(result[1]).stdout = stdout
          /\ PayloadOf(result[1]).stderr = stderr[1]
          /\ PayloadOf(result[1]).error = errorSummary
          /\ errorSummary = parseError(stderr)

\* A run that failed, with output on both streams, has been answered after
\* its one spawn.
FailedRunAnsweredOnce ==
    /\ pc = "returned" /\ spawnCount = 1
    /\ child.status = "exited" /\ exitCode # Some(0)
    /\ stdout # <<>> /\ nLines > 0
    /\ HasPayload(result[1])

-----------------------------------------------------------------------------
(* Properties of parseError, checked under SpecParse.  The shapes the      *)
(* claims speak of are stated here by position in the text, not by the      *)
(* matching procedure above.                                                *)

\* The position of the "\n" that ends the line holding t[p] (one past the
\* text for the last line).
EolAt(t, p) == Min({n \in p..Len(t) : t[n] = NL} \cup {Len(t) + 1})

\* The start of the line holding t[p].
LineStartOf(t, p) == Max({b \in 1..p : b = 1 \/ t[b - 1] = NL})

\* The last position of the run of digits that starts at t[i].
DigitsEnd(t, i) ==
    Max({d \in i..Len(t) : \A j \in i..d : t[j] \in Digits})

\* A line starts at p with `<identifierPath>Error` and the colon t[c].
AnchorPrefixAt(t, p, c) ==
    /\ p = 1 \/ t[p - 1] = NL
    /\ c > p /\ c <= Len(t) /\ t[c] = ":" /\ t[c - 1] = ErrorWord
    /\ \A j \in p..(c - 1) : t[j] \in WordDotChars

Colons(t) == {c \in 1..Len(t) : t[c] = ":"}

\* Some line of t starts with `<identifierPath>Error:`.
HasAnchorPrefix(t) ==
    \E c \in Colons(t) : AnchorPrefixAt(t, LineStartOf(t, c), c)

\* t holds the marker `Traceback (most recent call last):`.
HasMarker(t) ==
    \E i \in 1..(Len(t) - 1) : t[i] = TracebackHead /\ t[i + 1] = ":"

\* A family-A header: a line that starts with `<identifierPath>Error:`,
\* after which, white space skipped, a non-empty rest of a line follows,
\* then a "\n" and at least one more character.
FamilyAFound(t) ==
    \E c \in Colons(t) :
        /\ AnchorPrefixAt(t, LineStartOf(t, c), c)
        /\ \E q \in (c + 1)..Len(t) :
            /\ \A j \in (c + 1)..(q - 1) : t[j] \in SpaceChars
            /\ t[q] # NL
            /\ EolAt(t, q) < Len(t)

\* `File "<path>", line <N>` stands at t[p], its closing quote at t[q].
PyOccAt(t, p, q) ==
    /\ t[p] = FileKw /\ p + 1 <= Len(t) /\ t[p + 1] = Quote
    /\ q > p + 2 /\ q + 2 <= Len(t) /\ t[q] = Quote
    /\ \A j \in (p + 2)..(q - 1) : t[j] \notin {Quote, NL}
    /\ t[q + 1] = LineKw /\ t[q + 2] \in Digits

PyOccs(t) ==
    {o \in {<<p, q>> : p \in {i \in 1..Len(t) : t[i] = FileKw},
                       q \in {i \in 1..Len(t) : t[i] = Quote}} :
        PyOccAt(t, o[1], o[2])}

\* The occurrence parseError is to report: on the last line that holds
\* one, the first of that line.
ReportedPyOcc(t) ==
    CHOOSE o \in PyOccs(t) :
        \A x \in PyOccs(t) :
            \/ LineStartOf(t, x[1]) < LineStartOf(t, o[1])
            \/ LineStartOf(t, x[1]) = LineStartOf(t, o[1]) /\ o[1] <= x[1]

IsPythonRecordOf(e, t) ==
    LET o == ReportedPyOcc(t)
    IN  /\ e.runtime = "python"
        /\ e.file = Some(SubSeq(t, o[1] + 2, o[2] - 1))
        /\ e.line = Some(Number(SubSeq(t, o[2] + 2, DigitsEnd(t, o[2] + 2))))
        /\ e.column = None

\* C8: parseError returns nothing for an absent input, for the empty
\* string and for every text with neither a family-A anchor (no line
\* starts with `<identifierPath>Error:`) nor the Traceback marker; the
\* payload's error field is then absent too.
NoMarkersNoErrorRecord ==
    (/\ pc = "parsed"
     /\ \/ stderr = None
        \/ stderr = Some(<<>>)
        \/ ~HasAnchorPrefix(stderr[1]) /\ ~HasMarker(stderr[1]))
    => errorSummary = None /\ result[1].error = None

\* A text of several lines that holds "Error:" inside a line, and a
\* File line, but no anchor and no marker, has been parsed.
UnmarkedTextParsed ==
    /\ pc = "parsed" /\ stderr # None /\ nLines > 1
    /\ \E c \in Colons(stderr[1]) : c > 1 /\ stderr[1][c - 1] = ErrorWord
    /\ ~HasAnchorPrefix(stderr[1]) /\ ~HasMarker(stderr[1])
    /\ errorSummary = None

\* C4, as stated: for every stderr that holds the Traceback marker and one
\* or more `File "<path>", line <N>` lines, parseError returns a family-B
\* record with the file and line of the last of them and no column.
TracebackAlwaysFamilyB ==
    (pc = "parsed" /\ stderr # None
        /\ HasMarker(stderr[1]) /\ PyOccs(stderr[1]) # {})
    => /\ errorSummary # None
       /\ IsPythonRecordOf(errorSummary[1], stderr[1])

\* C4, amended: the same for every such stderr in which no family-A header
\* is found (family A is tried first and wins); the file and line are those
\* of the last line that holds a `File "<path>", line <N>`, of its first
\* occurrence should the line hold several.
TracebackFamilyBUnlessFamilyA ==
    (pc = "parsed" /\ stderr # None
        /\ HasMarker(stderr[1]) /\ PyOccs(stderr[1]) # {}
        /\ ~FamilyAFound(stderr[1]))
    => /\ errorSummary # None
       /\ IsPythonRecordOf(errorSummary[1], stderr[1])

\* A traceback with File lines on two lines, and an `...Error:` line that
\* is no family-A header, has been parsed as family B.
TwoFrameTracebackParsed ==
    /\ pc = "parsed" /\ stderr # None
    /\ HasMarker(stderr[1]) /\ ~FamilyAFound(stderr[1])
    /\ \E x, y \in PyOccs(stderr[1]) :
          LineStartOf(stderr[1], x[1]) < LineStartOf(stderr[1], y[1])
    /\ errorSummary # None /\ errorSummary[1].runtime = "python"

\* `<absolute-path>:<line>:<column>` stands at t[s].
FirstColonAfter(t, s) == Min({c \in Colons(t) : c > s} \cup {Len(t) + 1})

LocOccAt(t, s) ==
    LET c1 == FirstColonAfter(t, s)
    IN  /\ t[s] = "/"
        /\ c1 > s + 1 /\ c1 + 1 <= Len(t)
        /\ \A j \in (s + 1)..(c1 - 1) : t[j] # NL
        /\ t[c1 + 1] \in Digits
        /\ LET d == DigitsEnd(t, c1 + 1)
           IN  d + 2 <= Len(t) /\ t[d + 1] = ":" /\ t[d + 2] \in Digits

LocOccs(t) == {s \in 1..Len(t) : LocOccAt(t, s)}

LocFile(t, s) == SubSeq(t, s, FirstColonAfter(t, s) - 1)

LocLine(t, s) ==
    LET c1 == FirstColonAfter(t, s)
    IN  Number(SubSeq(t, c1 + 1, DigitsEnd(t, c1 + 1)))

LocColumn(t, s) ==
    LET d == DigitsEnd(t, FirstColonAfter(t, s) + 1)
    IN  Number(SubSeq(t, d + 2, DigitsEnd(t, d + 2)))

\* A well-formed family-A anchor line starts at p: `<identifierPath>Error:`
\* and a message, something other than white space, on the same line.
AnchorColon(t, p) == FirstColonAfter(t, p)

WellFormedAnchorAt(t, p) ==
    LET c == AnchorColon(t, p)
    IN  /\ AnchorPrefixAt(t, p, c)
        /\ \E q \in (c + 1)..(EolAt(t, p) - 1) : t[q] \notin SpaceChars

\* The well-formed anchor lines that a location follows on a later line.
LocatedAnchors(t) ==
    {p \in 1..Len(t) :
        WellFormedAnchorAt(t, p) /\ \E s \in LocOccs(t) : s > EolAt(t, p)}

\* C5: for every stderr that holds a well-formed family-A anchor line
\* followed by a line with `<absolute-path>:<line>:<column>`, parseError
\* returns a family-A record with the kind of the (first such) anchor, for
\* message the rest of that anchor line, and the file, line and column of
\* the first location after the anchor line.
AnchorLineGivesFamilyA ==
    (pc = "parsed" /\ stderr # None /\ LocatedAnchors(stderr[1]) # {})
    => LET t == stderr[1]
           p == Min(LocatedAnchors(t))
           c == AnchorColon(t, p)
           n == EolAt(t, p)
           q == Min({i \in (c + 1)..(n - 1) : t[i] \notin SpaceChars})
           s == Min({i \in LocOccs(t) : i > n})
       IN  /\ errorSummary # None
           /\ errorSummary[1].runtime = "node"
           /\ errorSummary[1].type = SubSeq(t, p, c - 1)
           /\ errorSummary[1].message = SubSeq(t, q, n - 1)
           /\ errorSummary[1].file = Some(LocFile(t, s))
           /\ errorSummary[1].line = Some(LocLine(t, s))
           /\ errorSummary[1].column = Some(LocColumn(t, s))

\* C10: in a family-A record the location comes from the text captured
\* after the header only: the reported file, line and column are those of
\* the first `<absolute-path>:<line>:<column>` at or after the start of the
\* captured stack, never of one in the message or before the anchor line,
\* and all three are absent when the captured stack holds none.
LocationOnlyFromCapturedStack ==
    (pc = "parsed" /\ errorSummary # None /\ errorSummary[1].runtime = "node")
    => LET t == stderr[1]
           e == errorSummary[1]
           k == Len(t) - Len(e.stack) + 1
           m == k - 1 - Len(e.message)
           After == {s \in LocOccs(t) : s >= k}
       IN  /\ Len(e.stack) >= 1 /\ Suffix(t, k) = e.stack
           /\ t[k - 1] = NL /\ SubSeq(t, m, k - 2) = e.message
           /\ \E c \in Colons(t) :
                 /\ c < m
                 /\ AnchorPrefixAt(t, LineStartOf(t, c), c)
                 /\ SubSeq(t, LineStartOf(t, c), c - 1) = e.type
           /\ (e.file = None) = (e.line = None)
           /\ (e.file = None) = (e.column = None)
           /\ (After = {} => e.file = None)
           /\ (After # {} =>
                 /\ e.file = Some(LocFile(t, Min(After)))
                 /\ e.line = Some(LocLine(t, Min(After)))
                 /\ e.column = Some(LocColumn(t, Min(After))))

\* A family-A record was made of a text with a location in the message and
\* one before the anchor line, and none after the header: none is reported.
LocationInMessageNotReported ==
    /\ pc = "parsed" /\ errorSummary # None
    /\ errorSummary[1].runtime = "node"
    /\ LET t == stderr[1]
           k == Len(t) - Len(errorSummary[1].stack) + 1
       IN  /\ \E s \in LocOccs(t) : s >= k - 1 - Len(errorSummary[1].message)
           /\ \E s \in LocOccs(t) : s < k - 1 - Len(errorSummary[1].message)
           /\ \A s \in LocOccs(t) : s < k
    /\ errorSummary[1].file = None

-----------------------------------------------------------------------------
(* Properties of debug_suggest_fix and summarizeStack, checked under        *)
(* SpecSummary.                                                             *)

\* The positions of t that hold something other than white space.
Inked(t) == {i \in 1..Len(t) : t[i] \notin SpaceChars}

\* The first non-blank line of t (t has one).
FirstInkedLine(t) ==
    LET x == Min(Inked(t))
    IN  SubSeq(t, LineStartOf(t, x), EolAt(t, x) - 1)

\* l without the white space it starts with.
LeftTrimmed(l) ==
    IF Inked(l) = {} THEN <<>> ELSE Suffix(l, Min(Inked(l)))

\* l is `<dotted-identifier>Error:<message>`: all before its first colon is
\* of word characters and dots and ends with Error.
IsFamilyALine(l) ==
    LET c == FirstColonAfter(l, 0)
    IN  /\ c >= 2 /\ c <= Len(l) /\ l[c - 1] = ErrorWord
        /\ \A j \in 1..(c - 1) : l[j] \in WordDotChars

\* l is `<simple-identifier>:<message>`.
IsFamilyBLine(l) ==
    LET c == FirstColonAfter(l, 0)
    IN  /\ c >= 2 /\ c <= Len(l) /\ l[1] \in IdentStartChars
        /\ \A j \in 1..(c - 1) : l[j] \in IdentChars

\* `kind: message` of a line of one of the two shapes.
KindAndMessage(l) ==
    LET c == FirstColonAfter(l, 0)
    IN  SubSeq(l, 1, c - 1) \o <<":", " ">> \o LeftTrimmed(Suffix(l, c + 1))

\* What the Stack Summarizer is to return for the text t.
ExpectedSummary(t) ==
    IF Inked(t) = {} THEN SubSeq(t, 1, Min({Len(t), SliceLimit}))
    ELSE LET l == FirstInkedLine(t)
         IN  IF IsFamilyALine(l) \/ IsFamilyBLine(l) THEN KindAndMessage(l)
             ELSE l

\* C7: for every trace the summary is made of the first non-blank line
\* alone: `kind: message` when the line is of family A or, failing that, of
\* family B, else the raw line, and the first 200 characters of the text
\* when no line is non-blank; debug_suggest_fix always answers, with the
\* summary under "Stack summary:", and never marks its result a failure.
SummaryFromFirstNonBlankLine ==
    pc = "suggested" =>
        /\ result # None
        /\ result[1].isError # Some(TRUE)
        /\ Len(result[1].content) = 1
        /\ LET text == result[1].content[1].text
               lead == <<"Stack summary:", NL>> \o ExpectedSummary(stderr[1])
                           \o <<NL, NL>>
           IN  /\ Len(text) > Len(lead)
               /\ SubSeq(text, 1, Len(lead)) = lead

\* A trace whose first line is blank and whose first non-blank line is of
\* family B and not of family A, with a family-A line after it, was
\* summarised.
LaterLineSummarised ==
    /\ pc = "suggested" /\ nLines = MaxStackLines
    /\ LET t == stderr[1]
       IN  /\ Inked(t) # {} /\ LineStartOf(t, Min(Inked(t))) > 1
           /\ IsFamilyBLine(FirstInkedLine(t))
           /\ ~IsFamilyALine(FirstInkedLine(t))
           /\ \E c \in Colons(t) : AnchorPrefixAt(t, LineStartOf(t, c), c)

-----------------------------------------------------------------------------
(* Properties of renderSummary and truncate, checked under SpecRender.      *)

RECURSIVE PartStart(_, _)
\* Where the i-th part starts in the text that joins the parts with "\n".
PartStart(parts, i) ==
    IF i = 1 THEN 1 ELSE PartStart(parts, i - 1) + Len(parts[i - 1]) + 1

\* The parts of the report that are the section of the given label, each
\* found in the rendered text where it is due.
SectionsOf(label) ==
    LET parts == result[1].parts
        text  == result[1].text
    IN  {i \in 1..Len(parts) :
            /\ Len(parts[i]) >= 2
            /\ parts[i][1] = label /\ parts[i][2] = NL
            /\ SubSeq(text, PartStart(parts, i),
                      PartStart(parts, i) + Len(parts[i]) - 1) = parts[i]}

SectionBody(i) == Suffix(result[1].parts[i], 3)

\* r is a head of body followed by the truncation marker, within the budget.
IsTruncationOf(r, body) ==
    LET h == Len(r) - Len(TruncationMarker)
    IN  /\ Len(r) <= TruncateBudget
        /\ h >= 1
        /\ Suffix(r, h + 1) = TruncationMarker
        /\ SubSeq(r, 1, h) = SubSeq(body, 1, h)

\* The report shows body under label: as it is when within the budget,
\* truncated when over it.
ShownUnder(label, body) ==
    \E i \in SectionsOf(label) :
        IF Len(body) > TruncateBudget
        THEN IsTruncationOf(SectionBody(i), body)
        ELSE SectionBody(i) = body

\* C6, as stated: every stdout/stderr body over the budget is rendered
\* within the budget, as its head and the truncation marker, and every body
\* at or under the budget is rendered verbatim (an empty one has nothing to
\* render).
EveryBodyRendered ==
    pc = "rendered" =>
        /\ stdout = <<>> \/ ShownUnder("STDOUT:", stdout)
        /\ stderr[1] = <<>> \/ ShownUnder("STDERR:", stderr[1])

\* C6, amended: that holds of every body with a character that is not
\* white space; a body that is empty or all white space has no section in
\* the report, whatever its length.
EveryNonBlankBodyRendered ==
    pc = "rendered" =>
        /\ IF NonBlank(stdout) THEN ShownUnder("STDOUT:", stdout)
           ELSE SectionsOf("STDOUT:") = {}
        /\ IF NonBlank(stderr[1]) THEN ShownUnder("STDERR:", stderr[1])
           ELSE SectionsOf("STDERR:") = {}

\* A report was rendered of a stdout over the budget, truncated, and a
\* stderr of white space over the budget, left out.
LongBodiesRendered ==
    /\ pc = "rendered"
    /\ NonBlank(stdout) /\ Len(stdout) > TruncateBudget
    /\ \E i \in SectionsOf("STDOUT:") : Len(SectionBody(i)) < Len(stdout)
    /\ ~NonBlank(stderr[1]) /\ Len(stderr[1]) > TruncateBudget
    /\ SectionsOf("STDERR:") = {}
====
